---- MODULE Spec2Model ----
(***************************************************************************)
(* The Auth facade of amplify-auth (class Auth): token store selection in  *)
(* the constructor, applyDefaults, createAuthenticator, getAccount, list,  *)
(* login, revoke and serverInfo.                                           *)
(*                                                                         *)
(* The token stores, the authenticators, the environments table, the       *)
(* endpoint templates and getServerInfo are imported by the facade and are *)
(* modelled from the design document; fetch (node-fetch) is the            *)
(* environment.                                                            *)
(***************************************************************************)
EXTENDS Integers, Sequences, FiniteSets, TLC

VARIABLES
    pc,      \* where the caller stands: "new", "constructed", "threw", "idle", "store", "logout", ...
    ctor,    \* the constructor's argument, the store constructors' behaviour, and what it did
    auth,    \* the Auth instance: its read-only defaults and its tokenStore
    store,   \* the entries held by the facade's token store, in the store's order
    call     \* the operation in progress, or the last one completed

vars == <<pc, ctor, auth, store, call>>

(***************************************************************************)
(* JavaScript values, <<type tag, payload>>.                               *)
(***************************************************************************)
Undefined == <<"undefined", "">>
Null      == <<"null", "">>
Str(s)    == <<"string", s>>
Num(s)    == <<"number", s>>
Bool(b)   == <<"boolean", IF b THEN "true" ELSE "false">>
Obj(id)   == <<"object", id>>
Arr(s)    == <<"array", s>>      \* the array [s] of one string

\* typeof v
TypeOf(v) == IF v[1] \in {"null", "array"} THEN "object" ELSE v[1]

\* The property key v converts to in o[v]: String(v)
PropertyKey(v) ==
    CASE v[1] \in {"string", "number", "boolean", "array"} -> v[2]
      [] v[1] = "undefined" -> "undefined"
      [] v[1] = "null"      -> "null"
      [] OTHER              -> "[object Object]"

\* ToBoolean(v): undefined, null, '', false and 0 are falsy
Truthy(v) == ~(v = Undefined \/ v = Null \/ v = Str("") \/ v = Bool(FALSE) \/ v = Num("0"))

\* a || b
Or(a, b) == IF Truthy(a) THEN a ELSE b

(***************************************************************************)
(* ./environments: the named environments and their base URLs.             *)
(***************************************************************************)
environments ==
    [dev     |-> [baseUrl |-> Str("https://login-dev.axway.com")],
     preprod |-> [baseUrl |-> Str("https://login-preprod.axway.com")],
     prod    |-> [baseUrl |-> Str("https://login.axway.com")]]

\* The properties the environments object inherits from Object.prototype;
\* each is a function or an object, and has no baseUrl.
ObjectPrototypeKeys ==
    {"constructor", "hasOwnProperty", "isPrototypeOf", "propertyIsEnumerable",
     "toLocaleString", "toString", "valueOf", "__proto__", "__defineGetter__",
     "__defineSetter__", "__lookupGetter__", "__lookupSetter__"}

\* environments[env] is truthy: an environment of the table, or an inherited
\* property
KnownEnvironment(env) ==
    PropertyKey(env) \in DOMAIN environments \cup ObjectPrototypeKeys

\* environments[env].baseUrl, for an env of which environments[env] is truthy
EnvironmentBaseUrl(env) ==
    IF PropertyKey(env) \in DOMAIN environments
    THEN environments[PropertyKey(env)].baseUrl
    ELSE Undefined

(***************************************************************************)
(* Option objects.  `object` is FALSE for an argument that is not an       *)
(* object (null, a string, ...); every property not supplied is Undefined. *)
(***************************************************************************)
DefaultedFields ==
    {"baseUrl", "clientId", "clientSecret", "env", "messages", "password",
     "realm", "secretFile", "serviceAccount", "username"}

OptFields == DefaultedFields \cup {"authenticator", "tokenStore", "url"}

NoOpts == [f \in OptFields |-> Undefined]

MkOpts(isObject, a) ==
    [object         |-> isObject,
     authenticator  |-> a["authenticator"],
     baseUrl        |-> a["baseUrl"],
     clientId       |-> a["clientId"],
     clientSecret   |-> a["clientSecret"],
     env            |-> a["env"],
     messages       |-> a["messages"],
     password       |-> a["password"],
     realm          |-> a["realm"],
     secretFile     |-> a["secretFile"],
     serviceAccount |-> a["serviceAccount"],
     tokenStore     |-> a["tokenStore"],
     username       |-> a["username"],
     url            |-> a["url"]]

EmptyOpts == MkOpts(TRUE, NoOpts)

\* The facade object: Object.defineProperties(this, {...}) and this.tokenStore.
MkAuth(o, ts) ==
    [baseUrl        |-> o.baseUrl,
     clientId       |-> o.clientId,
     clientSecret   |-> o.clientSecret,
     env            |-> o.env,
     messages       |-> o.messages,
     password       |-> o.password,
     realm          |-> o.realm,
     secretFile     |-> o.secretFile,
     serviceAccount |-> o.serviceAccount,
     username       |-> o.username,
     tokenStore     |-> ts]

(***************************************************************************)
(* Auth.applyDefaults(opts): throws, or fills opts in place.               *)
(***************************************************************************)
applyDefaults_KeepCallerStore(this, opts) ==
    IF ~opts.object
    THEN [err |-> "INVALID_ARGUMENT", opts |-> opts]
    ELSE LET env == Or(Or(opts.env, this.env), Str("prod")) IN
         IF ~KnownEnvironment(env)
         THEN [err |-> "INVALID_VALUE", opts |-> opts]
         ELSE [err  |-> "none",
               opts |-> [opts EXCEPT
                   !.baseUrl        = Or(Or(@, this.baseUrl), EnvironmentBaseUrl(env)),
                   !.clientId       = Or(@, this.clientId),
                   !.clientSecret   = Or(@, this.clientSecret),
                   !.env            = env,
                   !.messages       = Or(@, this.messages),
                   !.password       = Or(@, this.password),
                   !.realm          = Or(@, this.realm),
                   !.secretFile     = Or(@, this.secretFile),
                   !.serviceAccount = Or(@, this.serviceAccount),
                   !.tokenStore     = Or(@, this.tokenStore),
                   !.username       = Or(@, this.username)]]

applyDefaults(this, opts) ==
    IF ~opts.object
    THEN [err |-> "INVALID_ARGUMENT", opts |-> opts]
    ELSE LET env == Or(Or(opts.env, this.env), Str("prod")) IN
         IF ~KnownEnvironment(env)
         THEN [err |-> "INVALID_VALUE", opts |-> opts]
         ELSE [err  |-> "none",
               opts |-> [opts EXCEPT
                   !.baseUrl        = Or(Or(@, this.baseUrl), EnvironmentBaseUrl(env)),
                   !.clientId       = Or(@, this.clientId),
                   !.clientSecret   = Or(@, this.clientSecret),
                   !.env            = env,
                   !.messages       = Or(@, this.messages),
                   !.password       = Or(@, this.password),
                   !.realm          = Or(@, this.realm),
                   !.secretFile     = Or(@, this.secretFile),
                   !.serviceAccount = Or(@, this.serviceAccount),
                   !.tokenStore     = this.tokenStore,
                   !.username       = Or(@, this.username)]]

(***************************************************************************)
(* Authenticators.                                                         *)
(***************************************************************************)
\* An instance of Authenticator handed in by the caller, and a value that is none.
ExternalAuthenticator == Obj("Authenticator#external")
NotAnAuthenticator    == Obj("NotAnAuthenticator")

\* v instanceof Authenticator
InstanceOfAuthenticator(v) == v = ExternalAuthenticator

\* new OwnerPassword(opts) requires a non-empty username and password
\* (INVALID_ARGUMENT otherwise); the other constructors accept their options.
NewAuthenticatorError(kind, opts) ==
    IF kind = "OwnerPassword"
       /\ ~(TypeOf(opts.username) = "string" /\ Truthy(opts.username)
            /\ TypeOf(opts.password) = "string" /\ Truthy(opts.password))
    THEN "INVALID_ARGUMENT"
    ELSE "none"

\* The class createAuthenticator instantiates for opts without opts.authenticator.
SelectedKind_SecretFileFirst(opts) ==
    IF TypeOf(opts.username) = "string" /\ Truthy(opts.username)
       /\ TypeOf(opts.password) = "string"
    THEN "OwnerPassword"
    ELSE IF TypeOf(opts.secretFile) = "string" /\ Truthy(opts.secretFile)
    THEN "SignedJWT"
    ELSE IF TypeOf(opts.clientSecret) = "string" /\ Truthy(opts.clientSecret)
    THEN "ClientSecret"
    ELSE "PKCE"

SelectedKind(opts) ==
    IF TypeOf(opts.username) = "string" /\ Truthy(opts.username)
       /\ TypeOf(opts.password) = "string"
    THEN "OwnerPassword"
    ELSE IF TypeOf(opts.clientSecret) = "string" /\ Truthy(opts.clientSecret)
    THEN "ClientSecret"
    ELSE IF TypeOf(opts.secretFile) = "string" /\ Truthy(opts.secretFile)
    THEN "SignedJWT"
    ELSE "PKCE"

\* Auth.createAuthenticator(opts): the class of the authenticator returned
\* ("explicit" for opts.authenticator itself) and the error thrown, if any.
\* E.INVALID_ARUGMENT is not a member of the errors table, so the call at line
\* 255 throws a TypeError instead of building an INVALID_ARGUMENT error.
createAuthenticator(opts) ==
    IF Truthy(opts.authenticator)
    THEN IF ~InstanceOfAuthenticator(opts.authenticator)
         THEN [err |-> "TypeError", kind |-> "none"]
         ELSE [err |-> "none", kind |-> "explicit"]
    ELSE [err  |-> NewAuthenticatorError(SelectedKind(opts), opts),
          kind |-> SelectedKind(opts)]

(***************************************************************************)
(* Token store construction.                                               *)
(***************************************************************************)
CustomTokenStore == Obj("TokenStore#custom")
NotATokenStore   == Obj("NotATokenStore")
SecureStore      == Obj("SecureStore")
FileStore        == Obj("FileStore")
MemoryStore      == Obj("MemoryStore")

\* v instanceof TokenStore
InstanceOfTokenStore_AnyObject(v) == TypeOf(v) = "object"

InstanceOfTokenStore(v) == v \in {CustomTokenStore, SecureStore, FileStore, MemoryStore}

\* new SecureStore(opts): throws when the host has no credential vault (fault).
NewSecureStoreError(opts, fault) == fault

\* new FileStore(opts): throws ERR_MISSING_REQUIRED_PARAMETER without a token
\* store directory; fault is any other error its construction raises.
NewFileStoreError(opts, fault) ==
    IF fault # "none" THEN fault
    ELSE IF ~(TypeOf(opts.tokenStoreDir) = "string" /\ Truthy(opts.tokenStoreDir))
    THEN "ERR_MISSING_REQUIRED_PARAMETER"
    ELSE "none"

\* The constructor's argument: the defaults and the token store options.
MkCtorOpts(isObject, a, ts, type, dir) ==
    [object         |-> isObject,
     baseUrl        |-> a["baseUrl"],
     clientId       |-> a["clientId"],
     clientSecret   |-> a["clientSecret"],
     env            |-> a["env"],
     messages       |-> a["messages"],
     password       |-> a["password"],
     realm          |-> a["realm"],
     secretFile     |-> a["secretFile"],
     serviceAccount |-> a["serviceAccount"],
     username       |-> a["username"],
     tokenStore     |-> ts,
     tokenStoreType |-> type,
     tokenStoreDir  |-> dir]

\* catch around new SecureStore: true when the switch falls through to 'file'
SecureFallsThrough_Always(tokenStoreType) == TRUE

SecureFallsThrough(tokenStoreType) == tokenStoreType = Str("auto")

\* catch around new FileStore: true when the switch falls through to 'memory'
FileFallsThrough_Never(tokenStoreType, code) == FALSE

FileFallsThrough(tokenStoreType, code) ==
    tokenStoreType = Str("auto") /\ code = "ERR_MISSING_REQUIRED_PARAMETER"

\* Auth.constructor(opts): the error thrown (or "none"), this.tokenStore, and
\* the store constructors called, in order.
Constructor(opts, secureFault, fileFault) ==
    IF ~opts.object
    THEN [err |-> "INVALID_ARGUMENT", tokenStore |-> Null, tried |-> <<>>]
    ELSE IF Truthy(opts.tokenStore)
    THEN IF ~InstanceOfTokenStore(opts.tokenStore)
         THEN [err |-> "INVALID_PARAMETER", tokenStore |-> Null, tried |-> <<>>]
         ELSE [err |-> "none", tokenStore |-> opts.tokenStore, tried |-> <<>>]
    ELSE LET tokenStoreType == IF opts.tokenStoreType = Undefined
                               THEN Str("auto") ELSE opts.tokenStoreType
             atSecure  == tokenStoreType \in {Str("auto"), Str("secure")}
             secureErr == NewSecureStoreError(opts, secureFault)
             atFile    == \/ tokenStoreType = Str("file")
                          \/ atSecure /\ secureErr # "none"
                                      /\ SecureFallsThrough(tokenStoreType)
             fileErr   == NewFileStoreError(opts, fileFault)
             atMemory  == \/ tokenStoreType = Str("memory")
                          \/ atFile /\ fileErr # "none"
                                    /\ FileFallsThrough(tokenStoreType, fileErr)
             tried     == (IF atSecure THEN <<"SecureStore">> ELSE <<>>)
                          \o (IF atFile THEN <<"FileStore">> ELSE <<>>)
                          \o (IF atMemory THEN <<"MemoryStore">> ELSE <<>>)
         IN  IF atSecure /\ secureErr = "none"
             THEN [err |-> "none", tokenStore |-> SecureStore, tried |-> tried]
             ELSE IF atSecure /\ ~SecureFallsThrough(tokenStoreType)
             THEN [err |-> secureErr, tokenStore |-> Null, tried |-> tried]
             ELSE IF atFile /\ fileErr = "none"
             THEN [err |-> "none", tokenStore |-> FileStore, tried |-> tried]
             ELSE IF atFile /\ ~FileFallsThrough(tokenStoreType, fileErr)
             THEN [err |-> fileErr, tokenStore |-> Null, tried |-> tried]
             ELSE IF atMemory
             THEN [err |-> "none", tokenStore |-> MemoryStore, tried |-> tried]
             ELSE [err |-> "none", tokenStore |-> Null, tried |-> tried]

(***************************************************************************)
(* Token store contents and the authenticators' part of a login.           *)
(***************************************************************************)
\* What an externally built Authenticator was configured with.
ExternalConfig ==
    [clientId |-> Str("ext-client"), realm |-> Str("ext-realm"),
     baseUrl |-> Str("https://ext.example.com"), username |-> Undefined]

\* authenticator.hash: the fingerprint of class, client id, realm and base URL.
Hash(kind, opts) ==
    IF kind = "explicit"
    THEN <<"external", ExternalConfig.clientId[2], ExternalConfig.realm[2],
           ExternalConfig.baseUrl[2]>>
    ELSE <<kind, opts.clientId[2], opts.realm[2], opts.baseUrl[2]>>

\* The account name: the user for a password grant, the client id otherwise.
AccountName(kind, opts) ==
    IF kind = "explicit" THEN ExternalConfig.clientId[2]
    ELSE IF kind = "OwnerPassword" THEN opts.username[2]
    ELSE opts.clientId[2]

\* The credential entry a successful exchange yields.
Entry(kind, opts, tokens) ==
    [hash    |-> Hash(kind, opts),
     name    |-> AccountName(kind, opts),
     baseUrl |-> IF kind = "explicit" THEN ExternalConfig.baseUrl[2] ELSE opts.baseUrl[2],
     realm   |-> IF kind = "explicit" THEN ExternalConfig.realm[2] ELSE opts.realm[2],
     tokens  |-> tokens]

\* tokenStore.set(entry): one entry per hash, the last write wins.
StoreSet(entries, e) == SelectSeq(entries, LAMBDA x : x.hash # e.hash) \o <<e>>

\* tokenStore.get({hash}): the entry of that hash (here a sequence of at most one).
StoreGet(entries, hash) ==
    LET found == SelectSeq(entries, LAMBDA x : x.hash = hash) IN
    IF found = <<>> THEN <<>> ELSE <<found[1]>>

\* baseUrl filter of clear and delete: no filter, or the entry's base URL
MatchesBaseUrl(e, baseUrl) == ~Truthy(baseUrl) \/ e.baseUrl = baseUrl[2]

Range(q) == { q[i] : i \in DOMAIN q }

\* tokenStore.clear(baseUrl) and tokenStore.delete(accounts, baseUrl): the
\* entries removed, in the store's order; the others stay.
ClearRemoves(e, baseUrl) == MatchesBaseUrl(e, baseUrl)
DeleteRemoves(e, accounts, baseUrl) ==
    e.name \in Range(accounts.names) /\ MatchesBaseUrl(e, baseUrl)

\* getEndpoints(entry).logout with ?id_token_hint=<id_token>
LogoutUrl(e) == <<"logout", e.baseUrl, e.realm, e.tokens.id_token>>

\* getEndpoints(opts).wellKnown
WellKnownUrl(opts) == <<"wellKnown", opts.baseUrl[2], opts.realm[2], "">>

\* The value every operation returns or throws: see NoCall.
Outcome(err, opts, kind, trace, result, token, entries) ==
    [err |-> err, opts |-> opts, kind |-> kind, trace |-> trace,
     result |-> result, token |-> token, store |-> entries]

\* new <Class>(opts) as an effect; none for opts.authenticator itself
Constructed(a) == IF a.kind \in {"none", "explicit"} THEN <<>> ELSE << <<"new", a.kind>> >>

(***************************************************************************)
(* Auth.getAccount(opts)                                                   *)
(***************************************************************************)
getAccount_SkipDefaults(this, entries, opts) ==
    IF ~Truthy(this.tokenStore)
    THEN Outcome("none", opts, "none", <<>>, <<>>, "", entries)
    ELSE LET d == applyDefaults(this, opts) IN
         IF d.err # "none"
         THEN Outcome(d.err, opts, "none", <<>>, <<>>, "", entries)
         ELSE LET a == createAuthenticator(opts) IN
              IF a.err # "none"
              THEN Outcome(a.err, d.opts, a.kind, Constructed(a), <<>>, "", entries)
              ELSE Outcome("none", d.opts, a.kind,
                           Constructed(a) \o << <<"tokenStore.get", a.kind>> >>,
                           StoreGet(entries, Hash(a.kind, opts)), "", entries)

getAccount_DefaultsFirst(this, entries, opts) ==
    LET d == applyDefaults(this, opts) IN
    IF d.err # "none"
    THEN Outcome(d.err, opts, "none", <<>>, <<>>, "", entries)
    ELSE IF ~Truthy(this.tokenStore)
    THEN Outcome("none", opts, "none", <<>>, <<>>, "", entries)
    ELSE LET a == createAuthenticator(d.opts) IN
         IF a.err # "none"
         THEN Outcome(a.err, d.opts, a.kind, Constructed(a), <<>>, "", entries)
         ELSE Outcome("none", d.opts, a.kind,
                      Constructed(a) \o << <<"tokenStore.get", a.kind>> >>,
                      StoreGet(entries, Hash(a.kind, d.opts)), "", entries)

getAccount(this, entries, opts) ==
    IF ~Truthy(this.tokenStore)
    THEN Outcome("none", opts, "none", <<>>, <<>>, "", entries)
    ELSE LET d == applyDefaults(this, opts) IN
         IF d.err # "none"
         THEN Outcome(d.err, opts, "none", <<>>, <<>>, "", entries)
         ELSE LET a == createAuthenticator(d.opts) IN
              IF a.err # "none"
              THEN Outcome(a.err, d.opts, a.kind, Constructed(a), <<>>, "", entries)
              ELSE Outcome("none", d.opts, a.kind,
                           Constructed(a) \o << <<"tokenStore.get", a.kind>> >>,
                           StoreGet(entries, Hash(a.kind, d.opts)), "", entries)

(***************************************************************************)
(* Auth.list()                                                             *)
(***************************************************************************)
list(this, entries) ==
    IF Truthy(this.tokenStore)
    THEN Outcome("none", EmptyOpts, "none", << <<"tokenStore.list", "">> >>, entries, "",
                 entries)
    ELSE Outcome("none", EmptyOpts, "none", <<>>, <<>>, "", entries)

(***************************************************************************)
(* Auth.login(opts).  exchange is what the identity provider answers: an   *)
(* error, or the token set of a successful exchange, which the             *)
(* authenticator persists in the store it was handed (opts.tokenStore).    *)
(***************************************************************************)
login_AlwaysPersists(this, entries, opts, exchange) ==
    LET d == applyDefaults(this, opts) IN
    IF d.err # "none"
    THEN Outcome(d.err, opts, "none", <<>>, <<>>, "", entries)
    ELSE LET a == createAuthenticator(d.opts) IN
         IF a.err # "none"
         THEN Outcome(a.err, d.opts, a.kind, Constructed(a), <<>>, "", entries)
         ELSE IF exchange.err # "none"
         THEN Outcome(exchange.err, d.opts, a.kind,
                      Constructed(a) \o << <<"authenticator.login", a.kind>> >>,
                      <<>>, "", entries)
         ELSE Outcome("none", d.opts, a.kind,
                      Constructed(a) \o << <<"authenticator.login", a.kind>>,
                                           <<"tokenStore.set", a.kind>> >>,
                      <<Entry(a.kind, d.opts, exchange.tokens)>>,
                      exchange.tokens.access_token,
                      StoreSet(entries, Entry(a.kind, d.opts, exchange.tokens)))

login(this, entries, opts, exchange) ==
    LET d == applyDefaults(this, opts) IN
    IF d.err # "none"
    THEN Outcome(d.err, opts, "none", <<>>, <<>>, "", entries)
    ELSE LET a == createAuthenticator(d.opts) IN
         IF a.err # "none"
         THEN Outcome(a.err, d.opts, a.kind, Constructed(a), <<>>, "", entries)
         ELSE IF exchange.err # "none"
         THEN Outcome(exchange.err, d.opts, a.kind,
                      Constructed(a) \o << <<"authenticator.login", a.kind>> >>,
                      <<>>, "", entries)
         ELSE IF ~Truthy(d.opts.tokenStore)
         THEN Outcome("none", d.opts, a.kind,
                      Constructed(a) \o << <<"authenticator.login", a.kind>> >>,
                      <<Entry(a.kind, d.opts, exchange.tokens)>>,
                      exchange.tokens.access_token, entries)
         ELSE Outcome("none", d.opts, a.kind,
                      Constructed(a) \o << <<"authenticator.login", a.kind>>,
                                           <<"tokenStore.set", a.kind>> >>,
                      <<Entry(a.kind, d.opts, exchange.tokens)>>,
                      exchange.tokens.access_token,
                      StoreSet(entries, Entry(a.kind, d.opts, exchange.tokens)))

(***************************************************************************)
(* Auth.serverInfo(opts).  response is what the discovery endpoint         *)
(* answers: a 2xx response with a discovery document, or another status.   *)
(***************************************************************************)
DiscoveryUrl_AlwaysWellKnown(opts) == WellKnownUrl(opts)

DiscoveryUrl(opts) ==
    IF Truthy(opts.url) THEN <<"url", opts.url[2], "", "">> ELSE WellKnownUrl(opts)

\* The canonical discovery document (abridged to the fields the design
\* document names) and another one, as an endpoint may serve them.
canonicalDocument ==
    [issuer |-> "https://example.com/auth/realms/test",
     authorization_endpoint |->
         "https://example.com/auth/realms/test/protocol/openid-connect/auth",
     token_endpoint |->
         "https://example.com/auth/realms/test/protocol/openid-connect/token",
     userinfo_endpoint |->
         "https://example.com/auth/realms/test/protocol/openid-connect/userinfo",
     jwks_uri |-> "https://example.com/auth/realms/test/protocol/openid-connect/certs",
     grant_types_supported |->
         <<"authorization_code", "implicit", "refresh_token", "password",
           "client_credentials">>,
     response_types_supported |->
         <<"code", "none", "id_token", "token", "id_token token", "code id_token",
           "code token", "code id_token token">>]

otherDocument ==
    [canonicalDocument EXCEPT !.issuer = "https://other.example.com/auth/realms/other",
                              !.grant_types_supported = <<"authorization_code">>]

\* What the discovery endpoint answers: a 2xx response with a document, or
\* another status.
Responses ==
    { [ok |-> TRUE, body |-> <<d>>] :
          d \in {canonicalDocument, otherDocument} }
    \cup { [ok |-> FALSE, body |-> <<>>] }

\* getServerInfo(url): GET url; the parsed document of a 2xx response, as it
\* is, and NETWORK_ERROR for any other status.
getServerInfo(url, response) ==
    IF response.ok
    THEN [err |-> "none", document |-> response.body]
    ELSE [err |-> "NETWORK_ERROR", document |-> <<>>]

serverInfo(this, entries, opts, response) ==
    LET d == applyDefaults(this, opts) IN
    IF d.err # "none"
    THEN Outcome(d.err, opts, "none", <<>>, <<>>, "", entries)
    ELSE LET r == getServerInfo(DiscoveryUrl(d.opts), response) IN
         Outcome(r.err, d.opts, "none", << <<"fetch">> \o DiscoveryUrl(d.opts) >>,
                 r.document, "", entries)

(***************************************************************************)
(* Auth.revoke({accounts, all, baseUrl}): the part before the logout loop. *)
(***************************************************************************)
\* lines 354-365: what revoke does before it touches the store
revokeCheck_FalsyOnly(this, args) ==
    IF ~Truthy(this.tokenStore) THEN "no store"
    ELSE IF ~Truthy(args.all) /\ args.accounts.type = "undefined"
    THEN "INVALID_ARGUMENT"
    ELSE IF ~Truthy(args.all) /\ Len(args.accounts.names) = 0 THEN "nothing"
    ELSE IF Truthy(args.all) THEN "clear"
    ELSE "delete"

revokeCheck_AccountsFirst(this, args) ==
    IF ~Truthy(this.tokenStore) THEN "no store"
    ELSE IF ~Truthy(args.all) /\ args.accounts.type \notin {"string", "array"}
    THEN "INVALID_ARGUMENT"
    ELSE IF ~Truthy(args.all) /\ Len(args.accounts.names) = 0 THEN "nothing"
    ELSE IF Len(args.accounts.names) > 0 THEN "delete"
    ELSE "clear"

revokeCheck(this, args) ==
    IF ~Truthy(this.tokenStore) THEN "no store"
    ELSE IF ~Truthy(args.all) /\ args.accounts.type \notin {"string", "array"}
    THEN "INVALID_ARGUMENT"
    ELSE IF ~Truthy(args.all) /\ Len(args.accounts.names) = 0 THEN "nothing"
    ELSE IF Truthy(args.all) THEN "clear"
    ELSE "delete"

\* lines 367-372: the entries the store removes
revokeRemoves(this, args, e) ==
    CASE revokeCheck(this, args) = "clear"  -> ClearRemoves(e, args.baseUrl)
      [] revokeCheck(this, args) = "delete" -> DeleteRemoves(e, args.accounts, args.baseUrl)
      [] OTHER -> FALSE

\* What clear and delete resolve to: an array of the removed entries.
Removed(q) == <<"array", q>>

\* Array.isArray(v)
ArrayIsArray(v) == v[1] = "array"

\* lines 353-372: revoke from its call to where it first gives up control.
\* Without a store, with invalid or with empty accounts it is over before any
\* await (pc "idle": err is thrown, or [] returned).  Otherwise it calls the
\* store's clear or delete, which removes the matched entries, and awaits
\* the promise (pc "store"); revoked is what that promise will resolve to.
revokeStart_RequestFirst(this, entries, args) ==
    LET check   == revokeCheck(this, args)
        revoked == SelectSeq(entries, LAMBDA e : revokeRemoves(this, args, e)) IN
    [err     |-> IF check = "INVALID_ARGUMENT" THEN check ELSE "none",
     trace   |-> IF revoked # <<>>
                 THEN << <<"fetch">> \o LogoutUrl(revoked[1]) >> ELSE <<>>,
     revoked |-> revoked,
     store   |-> entries,
     pc      |-> IF revoked # <<>> THEN "logout" ELSE "idle"]

revokeStart(this, entries, args) ==
    LET check == revokeCheck(this, args) IN
    [err     |-> IF check = "INVALID_ARGUMENT" THEN check ELSE "none",
     trace   |-> IF check \in {"clear", "delete"}
                 THEN << <<"tokenStore." \o check, "">> >> ELSE <<>>,
     revoked |-> SelectSeq(entries, LAMBDA e : revokeRemoves(this, args, e)),
     store   |-> SelectSeq(entries, LAMBDA e : ~revokeRemoves(this, args, e)),
     pc      |-> IF check \in {"clear", "delete"} THEN "store" ELSE "idle"]

(***************************************************************************)
(* Inputs.                                                                 *)
(***************************************************************************)
\* At most this many properties are supplied in one options object drawn from
\* CallValues, and in one set of instance defaults drawn from InstanceValues.
MaxCallProps == 2
MaxInstanceProps == 1

\* The values a caller passes per call, by property.
CallValues ==
    [f \in OptFields |->
        CASE f = "authenticator"  -> {ExternalAuthenticator, NotAnAuthenticator}
          [] f = "baseUrl"        -> {Str(""), Str("https://call.example.com")}
          [] f = "clientId"       -> {Str("call-client")}
          [] f = "clientSecret"   -> {Str(""), Str("call-secret")}
          [] f = "env"            -> {Str("dev"), Str("bogus"), Str("constructor"),
                                      Arr("dev"), Null}
          [] f = "messages"       -> {Obj("messages#call")}
          [] f = "password"       -> {Str(""), Str("call-password")}
          [] f = "realm"          -> {Str("call-realm")}
          [] f = "secretFile"     -> {Str("call.pem")}
          [] f = "serviceAccount" -> {Bool(FALSE), Bool(TRUE)}
          [] f = "tokenStore"     -> {CustomTokenStore}
          [] f = "username"       -> {Str("call-user")}
          [] f = "url"            -> {Str("https://call.example.com/.well-known")}]

\* The defaults given to the constructor, by property.
InstanceValues ==
    [f \in DefaultedFields |->
        CASE f = "baseUrl"        -> {Str("https://inst.example.com")}
          [] f = "clientId"       -> {Str("inst-client")}
          [] f = "clientSecret"   -> {Str("inst-secret")}
          [] f = "env"            -> {Str("preprod"), Str("nowhere"), Str("")}
          [] f = "messages"       -> {Obj("messages#inst")}
          [] f = "password"       -> {Str(""), Str("inst-password")}
          [] f = "realm"          -> {Str("inst-realm")}
          [] f = "secretFile"     -> {Str("inst.pem")}
          [] f = "serviceAccount" -> {Bool(TRUE)}
          [] f = "username"       -> {Str("inst-user")}]

\* The assignments of values to at most k of the properties in fields; every
\* other property of all is Undefined.
Supplied(all, fields, values, k) ==
    UNION { { [f \in all |-> IF f \in S THEN a[f] ELSE Undefined] :
                a \in { b \in [S -> UNION { values[g] : g \in S }] :
                          \A g \in S : b[g] \in values[g] } } :
            S \in { T \in SUBSET fields : Cardinality(T) <= k } }

\* The credentials createAuthenticator inspects, in every combination.
CredentialOpts ==
    { [NoOpts EXCEPT !["authenticator"] = a, !["username"] = u, !["password"] = p,
                     !["clientSecret"] = c, !["secretFile"] = f] :
        a \in {Undefined, ExternalAuthenticator, NotAnAuthenticator},
        u \in {Undefined, Str(""), Str("call-user"), Num("7")},
        p \in {Undefined, Str(""), Str("call-password")},
        c \in {Undefined, Str(""), Str("call-secret"), Num("7")},
        f \in {Undefined, Str("call.pem")} }

CallOptions ==
    { MkOpts(TRUE, a) : a \in Supplied(OptFields, OptFields, CallValues, MaxCallProps)
                              \cup CredentialOpts }
    \cup {MkOpts(FALSE, NoOpts)}

InstanceDefaults ==
    Supplied(OptFields, DefaultedFields, InstanceValues, MaxInstanceProps)

NoCtor == [opts |-> MkCtorOpts(TRUE, NoOpts, Undefined, Undefined, Undefined),
           secureFault |-> "none", fileFault |-> "none",
           err |-> "none", tried |-> <<>>]

\* revoke's argument {accounts, all, baseUrl}; accounts is [type, names]: a
\* string is its one name ('' has none), an array its elements.
NoArgs == [accounts |-> [type |-> "undefined", names |-> <<>>],
           all |-> Undefined, baseUrl |-> Undefined]

\* An operation: its name, its argument as passed (raw, args) and as
\* applyDefaults left it (opts), the error thrown, the authenticator class, the
\* effects so far in order (trace), the value returned (result: entries;
\* token: login's access token), the entries the store removed (revoked),
\* the logout requests' answers so far (responses), the store's entries when
\* revoke began (before), the entries persisted by logins that completed
\* while revoke awaited the store or an answer (meanwhile), and the preceding
\* operation when that was a successful login and this one is getAccount
\* (login).
NoLogin == [raw |-> EmptyOpts, token |-> ""]

NoCall == [op |-> "none", raw |-> EmptyOpts, args |-> NoArgs, opts |-> EmptyOpts,
           err |-> "none", kind |-> "none", trace |-> <<>>, result |-> <<>>,
           token |-> "", revoked |-> <<>>, responses |-> <<>>, before |-> <<>>,
           meanwhile |-> {}, login |-> NoLogin]

(***************************************************************************)
(* SpecOptions: applyDefaults and createAuthenticator on their own, over   *)
(* every options object of CallOptions and every InstanceDefaults.         *)
(***************************************************************************)
InitOptions ==
    /\ pc = "idle"
    /\ ctor = NoCtor
    /\ \E d \in InstanceDefaults, ts \in {Null, MemoryStore} :
           auth = MkAuth(MkOpts(TRUE, d), ts)
    /\ store = <<>>
    /\ \E o \in CallOptions : call = [NoCall EXCEPT !.raw = o, !.opts = o]

\* this.applyDefaults(opts)
ApplyDefaults ==
    /\ pc = "idle"
    /\ LET r == applyDefaults(auth, call.raw) IN
           /\ call' = [call EXCEPT !.op = "applyDefaults", !.opts = r.opts, !.err = r.err]
           /\ pc' = IF r.err = "none" THEN "defaulted" ELSE "threw"
    /\ UNCHANGED <<ctor, auth, store>>

\* this.createAuthenticator(opts), on the options applyDefaults filled in
CreateAuthenticator ==
    /\ pc = "defaulted"
    /\ LET r == createAuthenticator(call.opts) IN
           /\ call' = [call EXCEPT !.op = "createAuthenticator", !.kind = r.kind,
                                   !.err = r.err]
           /\ pc' = IF r.err = "none" THEN "created" ELSE "threw"
    /\ UNCHANGED <<ctor, auth, store>>

NextOptions == ApplyDefaults \/ CreateAuthenticator

SpecOptions == InitOptions /\ [][NextOptions]_vars

(***************************************************************************)
(* SpecCtor: new Auth(opts).                                               *)
(***************************************************************************)
CtorOptions ==
    { MkCtorOpts(TRUE, d, ts, type, dir) :
        d \in InstanceDefaults,
        ts \in {Undefined, Null, CustomTokenStore, NotATokenStore},
        type \in {Undefined, Null, Str("auto"), Str("secure"), Str("file"),
                  Str("memory"), Str("keychain")},
        dir \in {Undefined, Str("/home/user/.axway")} }
    \cup {MkCtorOpts(FALSE, NoOpts, Undefined, Undefined, Undefined)}

SecureFaults == {"none", "ERR_KEYTAR_NOT_FOUND"}
FileFaults   == {"none", "ERR_INVALID_PARAMETER"}

InitCtor ==
    /\ pc = "new"
    /\ \E o \in CtorOptions, sf \in SecureFaults, ff \in FileFaults :
           ctor = [NoCtor EXCEPT !.opts = o, !.secureFault = sf, !.fileFault = ff]
    /\ auth = MkAuth(EmptyOpts, Null)
    /\ store = <<>>
    /\ call = NoCall

\* new Auth(ctor.opts)
Construct ==
    /\ pc = "new"
    /\ LET r == Constructor(ctor.opts, ctor.secureFault, ctor.fileFault) IN
           /\ ctor' = [ctor EXCEPT !.err = r.err, !.tried = r.tried]
           /\ auth' = IF r.err = "none" THEN MkAuth(ctor.opts, r.tokenStore) ELSE auth
           /\ pc' = IF r.err = "none" THEN "constructed" ELSE "threw"
    /\ UNCHANGED <<store, call>>

NextCtor == Construct

SpecCtor == InitCtor /\ [][NextCtor]_vars

(***************************************************************************)
(* Spec: a constructed facade and a caller that awaits each operation      *)
(* before it starts the next.                                              *)
(***************************************************************************)
\* The token store holds at most this many entries (a login that would add
\* one more is not started), and an options object has at most this many
\* properties.
MaxEntries == 2
MaxOptionProps == 1

\* The defaults of the facades: none, an unknown environment, or a client id.
FacadeValues ==
    [f \in {"env", "clientId"} |->
        IF f = "env" THEN {Str("nowhere")} ELSE {Str("inst-client")}]

FacadeDefaults == Supplied(OptFields, {"env", "clientId"}, FacadeValues, 1)

\* What a caller passes to login and getAccount, and to serverInfo.
LoginValues ==
    [f \in {"authenticator", "clientSecret", "env", "tokenStore"} |->
        CASE f = "authenticator" -> {ExternalAuthenticator, NotAnAuthenticator}
          [] f = "clientSecret"  -> {Str("call-secret")}
          [] f = "env"           -> {Str("bogus")}
          [] f = "tokenStore"    -> {CustomTokenStore}]

ServerInfoValues ==
    [f \in {"env", "realm", "url"} |->
        CASE f = "env"   -> {Str("dev"), Str("constructor"), Null}
          [] f = "realm" -> {Str("call-realm")}
          [] f = "url"   -> {Str("https://call.example.com/.well-known")}]

Options ==
    { MkOpts(TRUE, a) :
        a \in Supplied(OptFields, DOMAIN LoginValues, LoginValues, MaxOptionProps) }
    \cup {MkOpts(FALSE, NoOpts)}

ServerInfoOptions ==
    { MkOpts(TRUE, a) :
        a \in Supplied(OptFields, DOMAIN ServerInfoValues, ServerInfoValues,
                       MaxOptionProps) }
    \cup {MkOpts(FALSE, NoOpts)}

TokenSets ==
    { [access_token |-> "access-1", id_token |-> "id-1"],
      [access_token |-> "access-2", id_token |-> "id-2"] }

\* The identity provider's answers to a token exchange.
Exchanges ==
    { [err |-> "none", tokens |-> t] : t \in TokenSets }
    \cup { [err |-> "AUTH_FAILED", tokens |-> [access_token |-> "", id_token |-> ""]] }

\* The identity provider's answer to a login that runs during a revoke.
MeanwhileExchanges ==
    { [err |-> "none", tokens |-> [access_token |-> "access-2", id_token |-> "id-2"]] }

RevokeArgs ==
    { [accounts |-> a, all |-> Undefined, baseUrl |-> b] :
        a \in { [type |-> "undefined", names |-> <<>>],
                [type |-> "number", names |-> <<>>],
                [type |-> "string", names |-> <<>>],
                [type |-> "string", names |-> <<"inst-client">>],
                [type |-> "array", names |-> <<>>],
                [type |-> "array", names |-> <<"inst-client", "ext-client">>] },
        b \in {Undefined, environments.prod.baseUrl} }
    \cup
    { [accounts |-> a, all |-> Bool(TRUE), baseUrl |-> b] :
        a \in { [type |-> "undefined", names |-> <<>>],
                [type |-> "string", names |-> <<"inst-client">>] },
        b \in {Undefined, environments.prod.baseUrl} }
    \cup
    { [accounts |-> [type |-> "string", names |-> <<"inst-client">>],
       all |-> Bool(FALSE), baseUrl |-> Undefined] }

\* new Auth(opts) on a host without a credential vault and without a token
\* store directory: a Memory store, or no store for tokenStoreType null.
Init ==
    /\ pc = "idle"
    /\ \E d \in FacadeDefaults, type \in {Undefined, Null} :
           LET o == MkCtorOpts(TRUE, d, Undefined, type, Undefined)
               r == Constructor(o, "ERR_KEYTAR_NOT_FOUND", "none") IN
           /\ r.err = "none"
           /\ ctor = [NoCtor EXCEPT !.opts = o, !.secureFault = "ERR_KEYTAR_NOT_FOUND",
                                    !.tried = r.tried]
           /\ auth = MkAuth(o, r.tokenStore)
    /\ store = <<>>
    /\ call = NoCall

Returned(op, raw, r) ==
    [NoCall EXCEPT !.op = op, !.raw = raw, !.opts = r.opts, !.err = r.err,
                   !.kind = r.kind, !.trace = r.trace, !.result = r.result,
                   !.token = r.token]

\* await auth.login(o)
Login ==
    /\ pc = "idle"
    /\ \E o \in Options, x \in Exchanges :
           LET r == login(auth, store, o, x) IN
           /\ Len(r.store) <= MaxEntries
           /\ call' = Returned("login", o, r)
           /\ store' = r.store
    /\ UNCHANGED <<pc, ctor, auth>>

\* await auth.getAccount(o)
GetAccount ==
    /\ pc = "idle"
    /\ \E o \in Options :
           LET r == getAccount(auth, store, o) IN
           /\ call' = [Returned("getAccount", o, r) EXCEPT
                          !.login = IF call.op = "login" /\ call.err = "none"
                                    THEN [raw |-> call.raw, token |-> call.token]
                                    ELSE NoLogin]
           /\ store' = r.store
    /\ UNCHANGED <<pc, ctor, auth>>

\* await auth.list()
List ==
    /\ pc = "idle"
    /\ LET r == list(auth, store) IN
           /\ call' = Returned("list", EmptyOpts, r)
           /\ store' = r.store
    /\ UNCHANGED <<pc, ctor, auth>>

\* await auth.serverInfo(o)
ServerInfo ==
    /\ pc = "idle"
    /\ \E o \in ServerInfoOptions, response \in Responses :
           LET r == serverInfo(auth, store, o, response) IN
           /\ call' = [Returned("serverInfo", o, r) EXCEPT !.responses = <<response>>]
           /\ store' = r.store
    /\ UNCHANGED <<pc, ctor, auth>>

\* auth.revoke(args) up to its first return to the event loop, lines 353-372:
\* the checks and, when they pass, the call of the store's clear or delete,
\* whose promise revoke then awaits (line 369 or 371).
Revoke ==
    /\ pc = "idle"
    /\ \E args \in RevokeArgs :
           LET r == revokeStart(auth, store, args) IN
           /\ call' = [NoCall EXCEPT
                  !.op = "revoke", !.args = args, !.err = r.err,
                  !.trace = r.trace, !.revoked = r.revoked, !.before = store]
           /\ store' = r.store
           /\ pc' = r.pc
    /\ UNCHANGED <<ctor, auth>>

\* The store's promise is fulfilled and revoke goes on, lines 372-377 and
\* 386: with an array of at least one removed entry it sends the logout
\* request for the first and awaits the answer; otherwise the loop has
\* nothing to do and revoke returns what the store gave.
StoreAnswered ==
    /\ pc = "store"
    /\ LET revoked == Removed(call.revoked)
           requests == ArrayIsArray(revoked) /\ revoked[2] # <<>> IN
           /\ call' = [call EXCEPT
                  !.trace = IF requests
                            THEN @ \o << <<"fetch">> \o LogoutUrl(revoked[2][1]) >>
                            ELSE @,
                  !.result = IF requests THEN <<>> ELSE revoked[2]]
           /\ pc' = IF requests THEN "logout" ELSE "idle"
    /\ UNCHANGED <<ctor, auth, store>>

\* The outstanding logout request is answered, lines 377-383.  A response, ok
\* or not, is logged and the loop goes on: the request for the next removed
\* entry is sent and awaited, or after the last one revoke returns the removed
\* entries.  A rejected fetch throws out of revoke.
Logout ==
    /\ pc = "logout"
    /\ \E response \in {"ok", "status", "reject"} :
           LET i    == Len(call.responses) + 1
               last == i = Len(call.revoked) IN
           /\ call' = [call EXCEPT
                  !.trace = IF response = "reject" \/ last THEN @
                            ELSE @ \o << <<"fetch">> \o LogoutUrl(call.revoked[i + 1]) >>,
                  !.responses = @ \o <<response>>,
                  !.err = IF response = "reject" THEN "FetchError" ELSE "none",
                  !.result = IF response # "reject" /\ last THEN call.revoked ELSE <<>>]
           /\ pc' = IF response = "reject" \/ last THEN "idle" ELSE "logout"
    /\ UNCHANGED <<ctor, auth, store>>

\* While revoke awaits the store or an answer the event loop runs other
\* callbacks: a login({}) started by another caller completes and its
\* authenticator persists the entry in the facade's store.
LoginMeanwhile ==
    /\ pc \in {"store", "logout"}
    /\ \E x \in MeanwhileExchanges :
           LET r == login(auth, store, EmptyOpts, x) IN
           /\ r.err = "none"
           /\ Len(r.store) <= MaxEntries
           /\ call' = [call EXCEPT !.meanwhile = @ \cup Range(r.result)]
           /\ store' = r.store
    /\ UNCHANGED <<pc, ctor, auth>>

Next ==
    Login \/ GetAccount \/ List \/ ServerInfo \/ Revoke \/ StoreAnswered \/ Logout
    \/ LoginMeanwhile

Spec == Init /\ [][Next]_vars

(***************************************************************************)
(* Claims about the constructor (SpecCtor).                                *)
(***************************************************************************)
\* new Auth(opts) without a tokenStore instance and with tokenStoreType 'auto' or undefined
AutoMode ==
    /\ ctor.opts.object
    /\ ~Truthy(ctor.opts.tokenStore)
    /\ ctor.opts.tokenStoreType \in {Undefined, Str("auto")}

\* new Auth(opts) without a tokenStore instance and with this tokenStoreType
ExplicitMode(type) ==
    /\ ctor.opts.object
    /\ ~Truthy(ctor.opts.tokenStore)
    /\ ctor.opts.tokenStoreType = Str(type)

SecureFails == NewSecureStoreError(ctor.opts, ctor.secureFault) # "none"
FileFails   == NewFileStoreError(ctor.opts, ctor.fileFault) # "none"

\* C1 as stated: in auto mode the constructor never throws; it tries Secure,
\* then File, then Memory, stops at the first store whose construction
\* succeeds and holds that store.
C1_AutoNeverThrows ==
    (pc # "new" /\ AutoMode) =>
        /\ pc = "constructed"
        /\ ctor.err = "none"
        /\ ~SecureFails => (auth.tokenStore = SecureStore /\ ctor.tried = <<"SecureStore">>)
        /\ (SecureFails /\ ~FileFails) =>
               (auth.tokenStore = FileStore /\ ctor.tried = <<"SecureStore", "FileStore">>)
        /\ (SecureFails /\ FileFails) =>
               /\ auth.tokenStore = MemoryStore
               /\ ctor.tried = <<"SecureStore", "FileStore", "MemoryStore">>

\* C1 amended: in auto mode the constructor tries Secure, then File, then
\* Memory and holds the first store whose construction succeeds; a Secure
\* failure is never thrown; a File failure leads on to Memory only when its
\* code is ERR_MISSING_REQUIRED_PARAMETER, and any other File failure is thrown
\* to the caller, Memory is not tried and no store is held.
C1_AutoFallback ==
    (pc # "new" /\ AutoMode) =>
        /\ ~SecureFails =>
               /\ pc = "constructed"
               /\ auth.tokenStore = SecureStore
               /\ ctor.tried = <<"SecureStore">>
        /\ (SecureFails /\ ~FileFails) =>
               /\ pc = "constructed"
               /\ auth.tokenStore = FileStore
               /\ ctor.tried = <<"SecureStore", "FileStore">>
        /\ (SecureFails /\ NewFileStoreError(ctor.opts, ctor.fileFault)
                             = "ERR_MISSING_REQUIRED_PARAMETER") =>
               /\ pc = "constructed"
               /\ auth.tokenStore = MemoryStore
               /\ ctor.tried = <<"SecureStore", "FileStore", "MemoryStore">>
        /\ (SecureFails /\ NewFileStoreError(ctor.opts, ctor.fileFault)
                             \notin {"none", "ERR_MISSING_REQUIRED_PARAMETER"}) =>
               /\ pc = "threw"
               /\ ctor.err = NewFileStoreError(ctor.opts, ctor.fileFault)
               /\ auth.tokenStore = Null
               /\ ctor.tried = <<"SecureStore", "FileStore">>
        /\ pc = "constructed" <=> ctor.err = "none"

\* Auto mode fell back twice: Secure failed, File failed for want of a
\* directory, and the facade holds a Memory store.
C1_Witness ==
    /\ pc = "constructed" /\ AutoMode
    /\ SecureFails /\ FileFails
    /\ auth.tokenStore = MemoryStore
    /\ ctor.tried = <<"SecureStore", "FileStore", "MemoryStore">>

\* C2: with tokenStoreType 'secure' or 'file', a failure of that store's
\* construction is thrown by the constructor as it is, no other store is
\* constructed and the facade holds none.
C2_ExplicitTypeThrows ==
    /\ (pc # "new" /\ ExplicitMode("secure") /\ SecureFails) =>
           /\ pc = "threw"
           /\ ctor.err = NewSecureStoreError(ctor.opts, ctor.secureFault)
           /\ ctor.tried = <<"SecureStore">>
           /\ auth.tokenStore = Null
    /\ (pc # "new" /\ ExplicitMode("file") /\ FileFails) =>
           /\ pc = "threw"
           /\ ctor.err = NewFileStoreError(ctor.opts, ctor.fileFault)
           /\ ctor.tried = <<"FileStore">>
           /\ auth.tokenStore = Null

\* The constructor threw the Secure store's error for tokenStoreType 'secure'
\* although File construction would have succeeded.
C2_Witness ==
    /\ pc = "threw" /\ ExplicitMode("secure")
    /\ SecureFails /\ ~FileFails
    /\ ctor.err = "ERR_KEYTAR_NOT_FOUND"

(***************************************************************************)
(* Claims about applyDefaults and createAuthenticator (SpecOptions).       *)
(***************************************************************************)
\* The credentials as createAuthenticator reads them from the defaulted
\* options: a username is a non-empty string, a password is a string, a client
\* secret and a secret-file path are non-empty strings.
HasUsernamePassword(o) ==
    /\ TypeOf(o.username) = "string" /\ o.username # Str("")
    /\ TypeOf(o.password) = "string"
HasClientSecret(o) == TypeOf(o.clientSecret) = "string" /\ o.clientSecret # Str("")
HasSecretFile(o)   == TypeOf(o.secretFile) = "string" /\ o.secretFile # Str("")

\* C3: on the defaulted options, createAuthenticator picks the supplied
\* Authenticator instance; else OwnerPassword when username and password are
\* there; else ClientSecret when a client secret is; else SignedJWT when a
\* secret-file path is; else PKCE.
C3_FirstMatchWins ==
    call.op = "createAuthenticator" =>
        /\ InstanceOfAuthenticator(call.opts.authenticator) => call.kind = "explicit"
        /\ call.opts.authenticator = Undefined =>
               /\ HasUsernamePassword(call.opts) => call.kind = "OwnerPassword"
               /\ (~HasUsernamePassword(call.opts) /\ HasClientSecret(call.opts)) =>
                      call.kind = "ClientSecret"
               /\ (~HasUsernamePassword(call.opts) /\ ~HasClientSecret(call.opts)
                   /\ HasSecretFile(call.opts)) => call.kind = "SignedJWT"
               /\ (~HasUsernamePassword(call.opts) /\ ~HasClientSecret(call.opts)
                   /\ ~HasSecretFile(call.opts)) => call.kind = "PKCE"

\* ClientSecret was chosen although a secret-file path was there as well, the
\* secret coming from the instance defaults or from the call.
C3_Witness ==
    /\ call.op = "createAuthenticator" /\ pc = "created"
    /\ call.kind = "ClientSecret"
    /\ HasSecretFile(call.opts)
    /\ call.opts.authenticator = Undefined

\* What C4 expects of property f after applyDefaults: the per-call value when
\* one was supplied, else the instance default, else the environment's.
C4_Expected(f) ==
    IF call.raw[f] # Undefined THEN call.raw[f]
    ELSE IF auth[f] # Undefined THEN auth[f]
    ELSE IF f = "env" THEN Str("prod")
    ELSE IF f = "baseUrl"
    THEN EnvironmentBaseUrl(IF call.raw.env # Undefined THEN call.raw.env
                            ELSE IF auth.env # Undefined THEN auth.env
                            ELSE Str("prod"))
    ELSE Undefined

\* C4 as stated: after applyDefaults every configurable option has the per-call
\* value when the caller supplied one, else the instance default, else the
\* environment-derived default.
C4_PerCallValueWins ==
    (call.op = "applyDefaults" /\ pc = "defaulted") =>
        \A f \in {"baseUrl", "clientId", "clientSecret", "password", "realm",
                  "secretFile", "serviceAccount", "username", "env"} :
            call.opts[f] = C4_Expected(f)

(***************************************************************************)
(* Claims about the operations (Spec).                                     *)
(***************************************************************************)
\* The environment the call is to use, line 219: the per-call env, else the
\* instance's, else 'prod'.
EffectiveEnv == Or(Or(call.raw.env, auth.env), Str("prod"))

\* The call names an environment that is none of dev, preprod and prod
UnknownEnvCall ==
    /\ call.op \in {"login", "getAccount", "serverInfo"}
    /\ call.raw.object
    /\ PropertyKey(EffectiveEnv) \notin {"dev", "preprod", "prod"}

\* C5 as stated: with an unknown effective environment login, getAccount and
\* serverInfo each fail with INVALID_VALUE, before any authenticator is
\* constructed, the token store is used or a request is sent.
C5_UnknownEnvAlwaysFails ==
    UnknownEnvCall => (call.err = "INVALID_VALUE" /\ call.trace = <<>>)

\* revoke was called with all not true and accounts neither a string nor an array
BadAccountsCall ==
    /\ call.op = "revoke"
    /\ call.args.all # Bool(TRUE)
    /\ call.args.accounts.type \notin {"string", "array"}

\* C6 as stated: such a revoke fails with INVALID_ARGUMENT on every facade,
\* having removed no entry and sent no logout request.
C6_BadAccountsAlwaysFails ==
    BadAccountsCall =>
        /\ call.err = "INVALID_ARGUMENT"
        /\ store = call.before /\ call.trace = <<>> /\ pc = "idle"

\* C6 amended: such a revoke fails with INVALID_ARGUMENT on every facade that
\* has a token store, and on a facade without one it returns an empty
\* sequence; either way no entry is removed and no logout request is sent.
C6_BadAccountsFails ==
    BadAccountsCall =>
        /\ store = call.before /\ call.trace = <<>> /\ pc = "idle"
        /\ IF Truthy(auth.tokenStore)
           THEN call.err = "INVALID_ARGUMENT"
           ELSE call.err = "none" /\ call.result = <<>>

\* revoke({accounts: 7}) failed with INVALID_ARGUMENT and left both entries
\* of the store in place.
C6_Witness ==
    /\ BadAccountsCall /\ call.args.accounts.type = "number"
    /\ call.err = "INVALID_ARGUMENT"
    /\ Len(store) = 2 /\ store = call.before

\* C7: when revoke has sent logout requests, whatever became of them, it
\* completes without an error and returns the entries the store removed.
C7_LogoutFailureNotPropagated ==
    (call.op = "revoke" /\ pc = "idle" /\ call.responses # <<>>) =>
        (call.err = "none" /\ call.result = call.revoked)

\* C8: when revoke is over, every removed entry has had exactly one logout
\* request, with its own id_token, in the order the store returned them.
C8_EveryEntryOneLogout ==
    (call.op = "revoke" /\ pc = "idle" /\ call.revoked # <<>>) =>
        SubSeq(call.trace, 2, Len(call.trace))
            = [i \in 1..Len(call.revoked) |-> <<"fetch">> \o LogoutUrl(call.revoked[i])]

\* C9: on a facade with a store, revoke({all: true}) without a baseUrl, with
\* no login completing meanwhile, returns exactly the entries the store held
\* and leaves it empty, so that list() returns an empty sequence.
C9_RevokeAllReturnsAll ==
    /\ (call.op = "revoke" /\ pc = "idle" /\ Truthy(auth.tokenStore)
        /\ call.args.all = Bool(TRUE) /\ call.args.baseUrl = Undefined
        /\ call.meanwhile = {}) =>
           (call.err = "none" /\ call.result = call.before /\ store = <<>>)
    /\ call.op = "list" => call.result = store

\* C10: on a facade with a token store, getAccount straight after a successful
\* login with the same options returns an entry whose access token is the one
\* that login returned.
C10_GetAccountAfterLogin ==
    (call.op = "getAccount" /\ call.login # NoLogin /\ call.raw = call.login.raw
     /\ Truthy(auth.tokenStore)) =>
        /\ call.err = "none"
        /\ Len(call.result) = 1
        /\ call.result[1].tokens.access_token = call.login.token

\* getAccount found the entry of a client-secret login whose client id came
\* from the instance defaults, the store holding another account's entry too.
C10_Witness ==
    /\ call.op = "getAccount" /\ call.login # NoLogin /\ call.raw = call.login.raw
    /\ call.kind = "ClientSecret" /\ call.raw.clientId = Undefined
    /\ auth.clientId = Str("inst-client")
    /\ Len(store) = 2
    /\ call.result # <<>> /\ call.result[1].tokens.access_token = call.login.token

\* getAccount looked the computed hash up in the facade's store
LookedUp ==
    /\ call.op = "getAccount"
    /\ call.trace # <<>>
    /\ call.trace[Len(call.trace)][1] = "tokenStore.get"

\* C11: on a facade without a token store getAccount returns null and throws
\* nothing, whatever its options (not an object, an unknown environment, an
\* invalid authenticator), and touches nothing; on a facade with a store,
\* when the store holds no entry of the computed hash, getAccount returns null
\* and no error.
C11_GetAccountNull ==
    call.op = "getAccount" =>
        /\ ~Truthy(auth.tokenStore) =>
               (call.err = "none" /\ call.result = <<>> /\ call.trace = <<>>)
        /\ (LookedUp /\ \A i \in DOMAIN store :
                            store[i].hash # Hash(call.kind, call.opts)) =>
               (call.err = "none" /\ call.result = <<>>)

\* getAccount returned null on a facade without a store, for options naming
\* an unknown environment.
C11_Witness ==
    /\ call.op = "getAccount" /\ ~Truthy(auth.tokenStore)
    /\ call.raw.env = Str("bogus")
    /\ call.err = "none" /\ call.result = <<>>

\* The facade was constructed with tokenStoreType null and no tokenStore instance
NoStoreFacade ==
    /\ ctor.opts.tokenStoreType = Null
    /\ ~Truthy(ctor.opts.tokenStore)

\* The token store operations among the effects of the operation
StoreEffects ==
    SelectSeq(call.trace, LAMBDA t : t[1] \in {"tokenStore.set", "tokenStore.get",
                                               "tokenStore.list", "tokenStore.clear",
                                               "tokenStore.delete"})

\* C12: a facade constructed with tokenStoreType null and no tokenStore
\* instance never has a token store: no entry is ever held, no operation
\* calls a token store, list() returns an empty sequence and revoke removes
\* nothing.
C12_NoStoreForLife ==
    NoStoreFacade =>
        /\ auth.tokenStore = Null
        /\ store = <<>>
        /\ StoreEffects = <<>>
        /\ call.revoked = <<>>
        /\ call.op = "list" => (call.err = "none" /\ call.result = <<>>)

\* A login succeeded on a facade without a store: it returned its access
\* token and nothing was persisted.
C12_Witness ==
    /\ NoStoreFacade
    /\ call.op = "login" /\ call.err = "none" /\ call.token # ""
    /\ store = <<>>

\* C13: with a tokenStore option that is not a TokenStore instance the
\* constructor throws INVALID_PARAMETER and no facade results; with a
\* TokenStore instance the facade holds exactly that instance, no Secure, File
\* or Memory store is constructed and nothing is thrown, whatever
\* tokenStoreType is.
C13_TokenStoreOption ==
    (pc # "new" /\ ctor.opts.object /\ Truthy(ctor.opts.tokenStore)) =>
        /\ ctor.tried = <<>>
        /\ IF ctor.opts.tokenStore = CustomTokenStore
           THEN /\ pc = "constructed" /\ ctor.err = "none"
                /\ auth.tokenStore = ctor.opts.tokenStore
           ELSE /\ pc = "threw" /\ ctor.err = "INVALID_PARAMETER"
                /\ auth.tokenStore = Null

\* The facade holds the caller's store although tokenStoreType 'secure' was
\* given and the Secure store could not have been constructed.
C13_Witness ==
    /\ pc = "constructed"
    /\ ctor.opts.tokenStore = CustomTokenStore /\ auth.tokenStore = CustomTokenStore
    /\ ctor.opts.tokenStoreType = Str("secure") /\ SecureFails
    /\ ctor.tried = <<>>

\* The operation got as far as an authenticator: one was constructed or the
\* caller's own was used.
UsedAuthenticator ==
    /\ call.op \in {"login", "getAccount"}
    /\ call.kind # "none"

\* C14: the facade holds, after every operation that succeeded or failed, the
\* token store its constructor left it with, and the options every
\* authenticator is constructed with or logged in with carry that store as
\* tokenStore, whatever tokenStore the caller passed.
C14_StoreFixed ==
    /\ auth.tokenStore
         = Constructor(ctor.opts, ctor.secureFault, ctor.fileFault).tokenStore
    /\ UsedAuthenticator => call.opts.tokenStore = auth.tokenStore

\* A login that was passed another token store succeeded with the facade's
\* Memory store in its options and persisted its entry there.
C14_Witness ==
    /\ call.op = "login" /\ call.err = "none"
    /\ call.raw.tokenStore = CustomTokenStore
    /\ auth.tokenStore = MemoryStore /\ call.opts.tokenStore = MemoryStore
    /\ call.trace[Len(call.trace)][1] = "tokenStore.set"
    /\ store # <<>>

\* serverInfo got past applyDefaults: its argument is an object and
\* environments[env] is truthy
ServerInfoFetched ==
    /\ call.op = "serverInfo"
    /\ call.raw.object
    /\ KnownEnvironment(EffectiveEnv)

\* C15: serverInfo sends one request: to the url option when one is given,
\* else to the well-known URL of the defaulted base URL (the call's, else the
\* instance's, else the environment's) and realm (the call's, else the
\* instance's); it returns the document of a 2xx response as served, and
\* fails with NETWORK_ERROR on any other status.
C15_ServerInfo ==
    ServerInfoFetched =>
        /\ call.trace =
               << IF Truthy(call.raw.url)
                  THEN <<"fetch", "url", call.raw.url[2], "", "">>
                  ELSE <<"fetch", "wellKnown",
                         Or(Or(call.raw.baseUrl, auth.baseUrl),
                            EnvironmentBaseUrl(EffectiveEnv))[2],
                         Or(call.raw.realm, auth.realm)[2], "">> >>
        /\ IF call.responses[1].ok
           THEN call.err = "none" /\ call.result = call.responses[1].body
           ELSE call.err = "NETWORK_ERROR" /\ call.result = <<>>

\* serverInfo fetched the url it was given and returned the canonical
\* document the endpoint served.
C15_Witness ==
    /\ ServerInfoFetched
    /\ call.raw.url = Str("https://call.example.com/.well-known")
    /\ call.trace = << <<"fetch", "url", "https://call.example.com/.well-known", "", "">> >>
    /\ call.err = "none" /\ call.result = <<canonicalDocument>>

\* login or getAccount reached createAuthenticator with an authenticator
\* option that is not an Authenticator instance: the defaults applied, and
\* for getAccount the facade has a token store.
InvalidAuthenticatorCall ==
    /\ call.op \in {"login", "getAccount"}
    /\ call.raw.object
    /\ call.raw.authenticator = NotAnAuthenticator
    /\ KnownEnvironment(EffectiveEnv)
    /\ call.op = "getAccount" => Truthy(auth.tokenStore)

\* C16 as stated: such a call fails with INVALID_ARGUMENT and constructs no
\* authenticator.
C16_InvalidAuthenticatorFails ==
    InvalidAuthenticatorCall =>
        /\ call.err = "INVALID_ARGUMENT"
        /\ call.trace = <<>>

\* The entries of the store, as it was when revoke began, that revoke's
\* arguments match: all of them under all (of that baseUrl, when one is given),
\* else the named accounts.
Matched(e) ==
    IF Truthy(call.args.all)
    THEN ClearRemoves(e, call.args.baseUrl)
    ELSE DeleteRemoves(e, call.args.accounts, call.args.baseUrl)

\* revoke got to its store operation: the facade has a store and the
\* arguments passed the checks
RevokeRemoved ==
    /\ call.op = "revoke"
    /\ Truthy(auth.tokenStore)
    /\ Truthy(call.args.all) \/ call.args.accounts.names # <<>>

\* The store holds no matched entry of those it had when revoke began, unless
\* a login that completed meanwhile persisted it: every entry in it is one
\* such a login persisted or an unmatched entry from before.
MatchedAbsent ==
    \A i \in DOMAIN store :
        \/ store[i] \in call.meanwhile
        \/ store[i] \in Range(call.before) /\ ~Matched(store[i])

\* This step of revoke issues a logout request: revoke ends it awaiting an
\* answer, having started it elsewhere or with fewer requests sent.
IssuesLogout ==
    /\ call'.op = "revoke" /\ pc' = "logout"
    /\ pc = "logout" => call'.trace # call.trace

\* This step is the outcome of a logout request: an answer, of success or of
\* another status, or a failure.
LogoutOutcome ==
    /\ call'.op = "revoke" /\ pc = "logout"
    /\ Len(call'.responses) > Len(call.responses)

\* C17: a step of revoke that issues a logout request starts where the same
\* revoke has already called the store's clear or delete, in an earlier step
\* and as its first effect, and where the store holds no matched entry (but
\* for one a login persisted meanwhile); the requests are all the effects
\* after the store operation, one per removed entry in order; issuing a
\* request and receiving any outcome of one leave the store as it is; and
\* from the store operation on, whatever the outcomes, the store holds no
\* matched entry (but for one a login persisted meanwhile).
C17_RemovalPrecedesLogout ==
    [][ /\ IssuesLogout =>
            /\ call.op = "revoke" /\ call.args = call'.args
            /\ call.trace # <<>>
            /\ call.trace[1][1] \in {"tokenStore.clear", "tokenStore.delete"}
            /\ SubSeq(call'.trace, 1, Len(call'.trace) - 1) = call.trace
            /\ Len(call'.trace) - 1 <= Len(call'.revoked)
            /\ \A i \in 2..Len(call'.trace) :
                   call'.trace[i] = <<"fetch">> \o LogoutUrl(call'.revoked[i - 1])
            /\ MatchedAbsent
            /\ store' = store
        /\ LogoutOutcome => store' = store
        /\ (call'.op = "revoke" /\ call'.trace # <<>>) => MatchedAbsent'
      ]_vars

\* revoke removed two entries and emptied the store, then sent the first
\* logout request, got a non-success status for it, and now awaits the
\* answer to the second; the store is still empty.
C17_Witness ==
    /\ RevokeRemoved /\ pc = "logout"
    /\ Len(call.before) = 2 /\ Len(call.revoked) = 2
    /\ call.responses = <<"status">>
    /\ Len(call.trace) = 3 /\ call.trace[3][1] = "fetch"
    /\ call.meanwhile = {} /\ store = <<>>

\* C18 (the store's content is stated for a revoke during which no login
\* completed): on a facade with a token store, revoke with all true clears the
\* store, of the entries of baseUrl when one is given and of all otherwise,
\* whatever accounts is; with all not true and a non-empty accounts string or
\* array it deletes the entries of the named accounts (of baseUrl when one is
\* given) and no other; on any facade, with all not true and an empty accounts
\* string or array it returns an empty sequence, removes nothing and sends no
\* request.
C18_AllFlagChoosesOperation ==
    call.op = "revoke" =>
        /\ (Truthy(auth.tokenStore) /\ call.args.all = Bool(TRUE)) =>
               /\ call.trace[1] = <<"tokenStore.clear", "">>
               /\ call.revoked =
                      SelectSeq(call.before,
                                LAMBDA e : \/ call.args.baseUrl = Undefined
                                           \/ e.baseUrl = call.args.baseUrl[2])
               /\ call.meanwhile = {} =>
                      store =
                      SelectSeq(call.before,
                                LAMBDA e : /\ call.args.baseUrl # Undefined
                                           /\ e.baseUrl # call.args.baseUrl[2])
        /\ (Truthy(auth.tokenStore) /\ call.args.all # Bool(TRUE)
            /\ call.args.accounts.type \in {"string", "array"}
            /\ call.args.accounts.names # <<>>) =>
               /\ call.trace[1] = <<"tokenStore.delete", "">>
               /\ call.revoked =
                      SelectSeq(call.before,
                                LAMBDA e : /\ e.name \in Range(call.args.accounts.names)
                                           /\ \/ call.args.baseUrl = Undefined
                                              \/ e.baseUrl = call.args.baseUrl[2])
               /\ call.meanwhile = {} =>
                      store =
                      SelectSeq(call.before,
                                LAMBDA e : ~(/\ e.name \in Range(call.args.accounts.names)
                                             /\ \/ call.args.baseUrl = Undefined
                                                \/ e.baseUrl = call.args.baseUrl[2]))
        /\ (call.args.all # Bool(TRUE)
            /\ call.args.accounts.type \in {"string", "array"}
            /\ call.args.accounts.names = <<>>) =>
               /\ call.err = "none" /\ call.result = <<>> /\ pc = "idle"
               /\ call.revoked = <<>> /\ store = call.before
               /\ call.trace = <<>>

\* revoke with all true and one account named cleared a store of two
\* entries, the one not named included.
C18_Witness ==
    /\ call.op = "revoke" /\ call.args.all = Bool(TRUE)
    /\ call.args.accounts.names = <<"inst-client">>
    /\ call.args.baseUrl = Undefined
    /\ Len(call.revoked) = 2 /\ store = <<>>
    /\ \E i \in 1..2 : call.revoked[i].name # "inst-client"

====
